---- MODULE Spec2Model ----
(***************************************************************************)
(* DefaultWorkerPool of worker/pool.go: the pool facade (Schedule, Close,  *)
(* the setters, PreAllocWorkerSize), the spawn loop with trySpawn, and the *)
(* worker goroutines of generateWorker.                                    *)
(*                                                                         *)
(* Workers are anonymous goroutines (the pool keeps no registry), so they  *)
(* are counted by the place they are at: blocked in the select (idle),     *)
(* running a job (running[t]), past the loop after an idle expiry          *)
(* (retiring) or after a recovered panic (recovering), both before the     *)
(* deferred workerCount--.                                                 *)
(*                                                                         *)
(* Time is abstracted: a time.After timer may fire whenever its worker is  *)
(* in the select (except on the closed, drained queue, where the receive   *)
(* is ready at once), and the spawn loop's sleep ends at some later step.  *)
(***************************************************************************)
EXTENDS Integers, Sequences, FiniteSets, TLC

\* ---------------------------------------------------------------- bounds
MaxTasks == 2
QueueCap == 2
MaxBatch == 2
MaxStandBy == 1
MaxMaximum == 2
MaxPreAlloc == 2
MaxSetterCalls == 1
MaxCloseCalls == 2
MaxTimeout == 1
MaxInitialWorkers == 2
BurstTasks == 4
BurstWorkers == 3

\* ------------------------------------------------------ program constants
DefaultBatchSize == 5
DefaultSizeStandBy == 5
DefaultSizeMaximum == 1000
SpawnChCapPerTask == MaxTasks + 1
SpawnChCap == 1

\* task identities: the k-th task submitted is task k
Tasks == 1..(IF BurstTasks > MaxTasks THEN BurstTasks ELSE MaxTasks)
BatchSizes == 0..MaxBatch
StandBys == 0..MaxStandBy
Maximums == 0..MaxMaximum
PreAllocSizes == 0..MaxPreAlloc
Timeouts == 0..MaxTimeout

VARIABLES
  isClosed,                  \* isClosed fpgo.AtomBool
  jobQueue,                  \* items held by the BufferedChannelQueue, oldest first
  queueClosed,               \* jobQueue.Close() has been performed
  workerCount,               \* workerCount int
  spawnWorkerCh,             \* number of signals pending in spawnWorkerCh
  isJobQueueClosedWhenClose,
  workerBatchSize,
  workerSizeStandBy,
  workerSizeMaximum,
  spawnPc,                   \* where spawnLoop is: wait, eval1, eval2, count, launch, sleep, done
  batchSize,                 \* trySpawn's local batchSize
  expectedWorkerCount,       \* trySpawn's local expectedWorkerCount
  spawnI,                    \* trySpawn's loop variable i
  idle,                      \* workers blocked in the select
  running,                   \* running[t]: workers executing task t
  retiring,                  \* workers that left the loop on expiry, before workerCount--
  recovering,                \* workers that recovered a panic, before workerCount--
  closing,                   \* Close callers past the IsClosed check, before Set(true)
  result,                    \* result[t]: what Schedule returned for task t
  panics,                    \* panics[t]: task t panics when run
  executed,                  \* executed[t]: times job t was called
  handled,                   \* handled[t]: times panicHandler was called for t
  closeCalls,                \* Close calls begun
  closedWrites,              \* isClosed.Set(true) performed
  queueCloses,               \* jobQueue.Close() performed
  crashed,                   \* a panic nothing recovered has ended the process
  setterCalls,               \* setters called after the initial configuration
  settled,                   \* a whole evaluation cycle ran after the last sizing change
  cycleClean,                \* the evaluation under way began after the last sizing change
  maxLowered,                \* SetWorkerSizeMaximum lowered the ceiling at run time
  preAllocSize               \* the n of the PreAllocWorkerSize(n) call that launched workers, or 0

configVars == <<isJobQueueClosedWhenClose, workerBatchSize, workerSizeStandBy,
                workerSizeMaximum>>
spawnVars == <<spawnPc, batchSize, expectedWorkerCount, spawnI>>
workerVars == <<idle, running, retiring, recovering>>
queueVars == <<jobQueue, queueClosed>>
taskVars == <<result, panics, executed, handled>>
lifeVars == <<isClosed, closing, closeCalls, closedWrites, queueCloses, crashed>>
ghostVars == <<setterCalls, settled, cycleClean, maxLowered, preAllocSize>>
vars == <<configVars, spawnVars, workerVars, queueVars, taskVars, lifeVars,
          ghostVars, workerCount, spawnWorkerCh>>

\* ------------------------------------------------------------ the queues
\* jobQueue.Count()
Count(q) == Len(q)

\* jobQueue.Offer(fn): ok, or the failure it returns
QueueOffer(q, closed) ==
  IF closed THEN "QueueClosed"
  ELSE IF Len(q) >= QueueCap THEN "QueueFull"
  ELSE "ok"

\* spawnWorkerCh.Offer(1) on the capacity-1 mailbox: dropped when one is pending
SignalOffer(ch) == IF ch < SpawnChCap THEN ch + 1 ELSE ch

\* what is left in the channel after `job := <-jobQueue.GetChannel()`
ReceivePeek(q) == q
ReceiveRest(q) == Tail(q)

\* ------------------------------------------------------- scaling policy
FloorBatch(b) == IF b < 1 THEN 1 ELSE b

\* trySpawn, first half: batchSize and Count() / batchSize
ExpectedQuotient(d, b) == d \div FloorBatch(b)

ClampNoMaximum(e, d, b, s, m) ==
  LET e1 == IF d % b > 0 THEN e + 1 ELSE e
  IN  IF s > e1 THEN s ELSE e1

\* trySpawn, second half: the partial batch, the standby floor, the ceiling
Clamp(e, d, b, s, m) ==
  LET e1 == IF d % b > 0 THEN e + 1 ELSE e
      e2 == IF s > e1 THEN s ELSE e1
  IN  IF m > 0 /\ e2 > m THEN m ELSE e2

notifyWorkersQueueOnly(ch, count, standBy, q) ==
  IF Count(q) > 0 THEN SignalOffer(ch) ELSE ch

\* notifyWorkers: the mailbox after it
notifyWorkers(ch, count, standBy, q) ==
  IF count < standBy \/ Count(q) > 0 THEN SignalOffer(ch) ELSE ch

\* trySpawn holds lock.RLock() between its two halves: Lock() waits
LockFree == spawnPc # "eval2"

\* ------------------------------------------------------------------ Init
\* NewDefaultWorkerPool(jobQueue), then either nothing or the fluent chain
\* SetWorkerSizeStandBy(s).SetWorkerBatchSize(b).SetWorkerSizeMaximum(m)
\* .SetIsJobQueueClosedWhenClose(f), before the spawn loop has run.
InitConfig ==
  \/ /\ workerBatchSize = DefaultBatchSize
     /\ workerSizeStandBy = DefaultSizeStandBy
     /\ workerSizeMaximum = DefaultSizeMaximum
     /\ isJobQueueClosedWhenClose = TRUE
     /\ spawnWorkerCh = 0
  \/ /\ workerBatchSize \in 1..MaxBatch
     /\ workerSizeStandBy \in StandBys
     /\ workerSizeMaximum \in Maximums
     /\ isJobQueueClosedWhenClose \in BOOLEAN
     /\ spawnWorkerCh = notifyWorkers(0, 0, workerSizeStandBy, <<>>)

\* everything but the configuration and the workers
InitPool ==
  /\ isClosed = FALSE
  /\ jobQueue = <<>>
  /\ queueClosed = FALSE
  /\ spawnPc = "wait"
  /\ batchSize = 0
  /\ expectedWorkerCount = 0
  /\ spawnI = 0
  /\ running = [t \in Tasks |-> 0]
  /\ retiring = 0
  /\ recovering = 0
  /\ closing = 0
  /\ result = [t \in Tasks |-> "none"]
  /\ panics = [t \in Tasks |-> FALSE]
  /\ executed = [t \in Tasks |-> 0]
  /\ handled = [t \in Tasks |-> 0]
  /\ closeCalls = 0
  /\ closedWrites = 0
  /\ queueCloses = 0
  /\ crashed = FALSE
  /\ setterCalls = 0
  /\ settled = FALSE
  /\ cycleClean = FALSE
  /\ maxLowered = FALSE

Init ==
  /\ InitConfig
  /\ InitPool
  /\ workerCount = 0
  /\ idle = 0
  /\ preAllocSize = 0

\* ---------------------------------------------------------- pool facade
ScheduleNoClosedCheck(t, p) ==
  LET r == QueueOffer(jobQueue, queueClosed)
  IN  /\ result[t] = "none"
      /\ \A u \in Tasks : u < t => result[u] # "none"
      /\ result' = [result EXCEPT ![t] = r]
      /\ panics' = [panics EXCEPT ![t] = (r = "ok") /\ p]
      /\ jobQueue' = IF r = "ok" THEN Append(jobQueue, t) ELSE jobQueue
      /\ spawnWorkerCh' = SignalOffer(spawnWorkerCh)
      /\ UNCHANGED <<configVars, spawnVars, workerVars, queueClosed, executed,
                     handled, lifeVars, ghostVars, workerCount>>

\* Schedule(fn) for the t-th submitted task; p: fn panics when called
Schedule(t, p) ==
  /\ result[t] = "none"
  /\ \A u \in Tasks : u < t => result[u] # "none"
  /\ IF isClosed
       THEN /\ result' = [result EXCEPT ![t] = "PoolClosed"]
            /\ UNCHANGED <<panics, jobQueue, spawnWorkerCh>>
       ELSE LET r == QueueOffer(jobQueue, queueClosed)
            IN  /\ result' = [result EXCEPT ![t] = r]
                /\ panics' = [panics EXCEPT ![t] = (r = "ok") /\ p]
                /\ jobQueue' = IF r = "ok" THEN Append(jobQueue, t) ELSE jobQueue
                /\ spawnWorkerCh' = SignalOffer(spawnWorkerCh)
  /\ UNCHANGED <<configVars, spawnVars, workerVars, queueClosed, executed,
                 handled, lifeVars, ghostVars, workerCount>>

ScheduleWithTimeoutHonoured(t, p, timeout) ==
  /\ result[t] = "none"
  /\ \A u \in Tasks : u < t => result[u] # "none"
  /\ IF isClosed
       THEN /\ result' = [result EXCEPT ![t] = "PoolClosed"]
            /\ UNCHANGED <<panics, jobQueue, spawnWorkerCh>>
       ELSE LET q == QueueOffer(jobQueue, queueClosed)
                r == IF q = "QueueFull" /\ timeout > 0 THEN "Timeout" ELSE q
            IN  /\ result' = [result EXCEPT ![t] = r]
                /\ panics' = [panics EXCEPT ![t] = (r = "ok") /\ p]
                /\ jobQueue' = IF r = "ok" THEN Append(jobQueue, t) ELSE jobQueue
                /\ spawnWorkerCh' = SignalOffer(spawnWorkerCh)
  /\ UNCHANGED <<configVars, spawnVars, workerVars, queueClosed, executed,
                 handled, lifeVars, ghostVars, workerCount>>

\* ScheduleWithTimeout(fn, timeout): the timeout is not used by the code
ScheduleWithTimeout(t, p, timeout) ==
  /\ result[t] = "none"
  /\ \A u \in Tasks : u < t => result[u] # "none"
  /\ IF isClosed
       THEN /\ result' = [result EXCEPT ![t] = "PoolClosed"]
            /\ UNCHANGED <<panics, jobQueue, spawnWorkerCh>>
       ELSE LET r == QueueOffer(jobQueue, queueClosed)
            IN  /\ result' = [result EXCEPT ![t] = r]
                /\ panics' = [panics EXCEPT ![t] = (r = "ok") /\ p]
                /\ jobQueue' = IF r = "ok" THEN Append(jobQueue, t) ELSE jobQueue
                /\ spawnWorkerCh' = SignalOffer(spawnWorkerCh)
  /\ UNCHANGED <<configVars, spawnVars, workerVars, queueClosed, executed,
                 handled, lifeVars, ghostVars, workerCount>>

CloseBeginNoReturn ==
  /\ closeCalls < MaxCloseCalls
  /\ closeCalls' = closeCalls + 1
  /\ closing' = closing + 1
  /\ UNCHANGED <<configVars, spawnVars, workerVars, queueVars, taskVars,
                 ghostVars, workerCount, spawnWorkerCh, isClosed,
                 closedWrites, queueCloses, crashed>>

\* Close(), up to the IsClosed check: returns at once when already closed
CloseBegin ==
  /\ closeCalls < MaxCloseCalls
  /\ closeCalls' = closeCalls + 1
  /\ closing' = IF isClosed THEN closing ELSE closing + 1
  /\ UNCHANGED <<configVars, spawnVars, workerVars, queueVars, taskVars,
                 ghostVars, workerCount, spawnWorkerCh, isClosed,
                 closedWrites, queueCloses, crashed>>

\* Close(), after the check: Set(true), then jobQueue.Close() when configured
CloseFinish ==
  /\ closing > 0
  /\ closing' = closing - 1
  /\ isClosed' = TRUE
  /\ closedWrites' = closedWrites + 1
  /\ queueClosed' = (queueClosed \/ isJobQueueClosedWhenClose)
  /\ queueCloses' = IF isJobQueueClosedWhenClose THEN queueCloses + 1
                    ELSE queueCloses
  /\ UNCHANGED <<configVars, spawnVars, workerVars, jobQueue, taskVars,
                 ghostVars, workerCount, spawnWorkerCh, closeCalls, crashed>>

\* ------------------------------------------------------------- setters
\* what every sizing setter does besides its assignment: notifyWorkers()
SizingChanged(standBy) ==
  /\ setterCalls < MaxSetterCalls
  /\ setterCalls' = setterCalls + 1
  /\ spawnWorkerCh' = notifyWorkers(spawnWorkerCh, workerCount, standBy, jobQueue)
  /\ settled' = FALSE
  /\ cycleClean' = FALSE
  /\ UNCHANGED <<spawnVars, workerVars, queueVars, taskVars, lifeVars,
                 workerCount, preAllocSize, isJobQueueClosedWhenClose>>

SetWorkerBatchSize(b) ==
  /\ workerBatchSize' = b
  /\ SizingChanged(workerSizeStandBy)
  /\ UNCHANGED <<workerSizeStandBy, workerSizeMaximum, maxLowered>>

SetWorkerSizeStandBy(s) ==
  /\ workerSizeStandBy' = s
  /\ SizingChanged(s)
  /\ UNCHANGED <<workerBatchSize, workerSizeMaximum, maxLowered>>

SetWorkerSizeMaximum(m) ==
  /\ workerSizeMaximum' = m
  /\ maxLowered' = (maxLowered \/ (m > 0 /\ (workerSizeMaximum <= 0 \/ m < workerSizeMaximum)))
  /\ SizingChanged(workerSizeStandBy)
  /\ UNCHANGED <<workerBatchSize, workerSizeStandBy>>

\* the duration itself is not modelled (timers fire at any time)
SetWorkerExpiryDuration ==
  /\ SizingChanged(workerSizeStandBy)
  /\ UNCHANGED <<workerBatchSize, workerSizeStandBy, workerSizeMaximum, maxLowered>>

\* (a call with the value already set changes nothing and is left out)
SetIsJobQueueClosedWhenClose(f) ==
  /\ setterCalls < MaxSetterCalls
  /\ f # isJobQueueClosedWhenClose
  /\ setterCalls' = setterCalls + 1
  /\ isJobQueueClosedWhenClose' = f
  /\ UNCHANGED <<workerBatchSize, workerSizeStandBy, workerSizeMaximum,
                 spawnVars, workerVars, queueVars, taskVars, lifeVars,
                 settled, cycleClean, maxLowered, preAllocSize, workerCount,
                 spawnWorkerCh>>

\* ---------------------------------------------------- launching workers
\* generateWorker: workerCount++ under Lock, then the goroutine enters its loop
generateWorker(n) ==
  /\ LockFree
  /\ workerCount' = workerCount + n
  /\ idle' = idle + n

PreAllocWorkerSizeFromZero(n) ==
  /\ n > 0 => preAllocSize = 0
  /\ generateWorker(n)
  /\ preAllocSize' = IF n > 0 THEN n ELSE preAllocSize
  /\ UNCHANGED <<configVars, spawnVars, running, retiring, recovering,
                 queueVars, taskVars, lifeVars, setterCalls, settled,
                 cycleClean, maxLowered, spawnWorkerCh>>

\* PreAllocWorkerSize(n): for i := workerCount; i < n; i++ { generateWorker() }
\* (one launching call is followed)
PreAllocWorkerSize(n) ==
  /\ workerCount < n => preAllocSize = 0
  /\ generateWorker(IF workerCount < n THEN n - workerCount ELSE 0)
  /\ preAllocSize' = IF workerCount < n THEN n ELSE preAllocSize
  /\ UNCHANGED <<configVars, spawnVars, running, retiring, recovering,
                 queueVars, taskVars, lifeVars, setterCalls, settled,
                 cycleClean, maxLowered, spawnWorkerCh>>

\* ---------------------------------------------------------- spawn loop
SpawnWakeIgnoresClosed ==
  /\ spawnPc = "wait"
  /\ spawnWorkerCh > 0
  /\ spawnWorkerCh' = spawnWorkerCh - 1
  /\ spawnPc' = "eval1"
  /\ cycleClean' = TRUE
  /\ UNCHANGED <<configVars, batchSize, expectedWorkerCount, spawnI,
                 workerVars, queueVars, taskVars, lifeVars, setterCalls,
                 settled, maxLowered, preAllocSize, workerCount>>

\* for range spawnWorkerCh { if IsClosed() { break } ...
SpawnWake ==
  /\ spawnPc = "wait"
  /\ spawnWorkerCh > 0
  /\ spawnWorkerCh' = spawnWorkerCh - 1
  /\ spawnPc' = IF isClosed THEN "done" ELSE "eval1"
  /\ cycleClean' = ~isClosed
  /\ UNCHANGED <<configVars, batchSize, expectedWorkerCount, spawnI,
                 workerVars, queueVars, taskVars, lifeVars, setterCalls,
                 settled, maxLowered, preAllocSize, workerCount>>

\* trySpawn: RLock, batchSize, expectedWorkerCount := Count() / batchSize
TrySpawnQuotient ==
  /\ spawnPc = "eval1"
  /\ batchSize' = FloorBatch(workerBatchSize)
  /\ expectedWorkerCount' = ExpectedQuotient(Count(jobQueue), workerBatchSize)
  /\ spawnPc' = "eval2"
  /\ UNCHANGED <<configVars, spawnI, workerVars, queueVars, taskVars,
                 lifeVars, ghostVars, workerCount, spawnWorkerCh>>

\* trySpawn: Count() % batchSize, the floor and the ceiling, RUnlock
TrySpawnClamp ==
  /\ spawnPc = "eval2"
  /\ expectedWorkerCount' = Clamp(expectedWorkerCount, Count(jobQueue), batchSize,
                                  workerSizeStandBy, workerSizeMaximum)
  /\ spawnPc' = "count"
  /\ UNCHANGED <<configVars, batchSize, spawnI, workerVars, queueVars, taskVars,
                 lifeVars, ghostVars, workerCount, spawnWorkerCh>>

\* the evaluation is over: time.Sleep(spawnWorkerDuration) begins
SpawnToSleep ==
  /\ spawnPc' = "sleep"
  /\ batchSize' = 0
  /\ expectedWorkerCount' = 0
  /\ spawnI' = 0
  /\ settled' = (settled \/ cycleClean)
  /\ cycleClean' = FALSE

\* trySpawn: if workerCount < expectedWorkerCount { for i := workerCount; ...
TrySpawnCount ==
  /\ spawnPc = "count"
  /\ IF workerCount < expectedWorkerCount
       THEN /\ spawnPc' = "launch"
            /\ spawnI' = workerCount
            /\ UNCHANGED <<batchSize, expectedWorkerCount, settled, cycleClean>>
       ELSE SpawnToSleep
  /\ UNCHANGED <<configVars, workerVars, queueVars, taskVars, lifeVars,
                 setterCalls, maxLowered, preAllocSize, workerCount, spawnWorkerCh>>

\* trySpawn: one iteration of the loop, generateWorker(); i++
TrySpawnLaunch ==
  /\ spawnPc = "launch"
  /\ generateWorker(1)
  /\ IF spawnI + 1 < expectedWorkerCount
       THEN /\ spawnI' = spawnI + 1
            /\ UNCHANGED <<spawnPc, batchSize, expectedWorkerCount, settled, cycleClean>>
       ELSE SpawnToSleep
  /\ UNCHANGED <<configVars, running, retiring, recovering, queueVars, taskVars,
                 lifeVars, setterCalls, maxLowered, preAllocSize, spawnWorkerCh>>

\* the sleep is over: the loop takes the next signal
SpawnSleepDone ==
  /\ spawnPc = "sleep"
  /\ spawnPc' = "wait"
  /\ UNCHANGED <<configVars, batchSize, expectedWorkerCount, spawnI, workerVars,
                 queueVars, taskVars, lifeVars, ghostVars, workerCount,
                 spawnWorkerCh>>

\* -------------------------------------------------------------- workers
\* case job := <-jobQueue.GetChannel(), a job is there
WorkerReceive ==
  /\ idle > 0
  /\ jobQueue # <<>>
  /\ jobQueue' = ReceiveRest(jobQueue)
  /\ idle' = idle - 1
  /\ running' = [running EXCEPT ![Head(jobQueue)] = @ + 1]
  /\ UNCHANGED <<configVars, spawnVars, retiring, recovering, queueClosed,
                 taskVars, lifeVars, ghostVars, workerCount, spawnWorkerCh>>

\* case job := <-jobQueue.GetChannel() on the closed, drained queue: job == nil
WorkerReceiveNil ==
  /\ idle > 0
  /\ jobQueue = <<>>
  /\ queueClosed
  /\ UNCHANGED vars

JobReturnsCallsHandler(t) ==
  /\ idle' = idle + 1
  /\ handled' = [handled EXCEPT ![t] = @ + 1]
  /\ UNCHANGED recovering

\* job() returns and the worker loops
JobReturns(t) ==
  /\ idle' = idle + 1
  /\ UNCHANGED <<handled, recovering>>

\* job() panics: the deferred function recovers and calls panicHandler
\* (the default handler or a configured one; a nil handler is not modelled)
JobPanics(t) ==
  /\ handled' = [handled EXCEPT ![t] = @ + 1]
  /\ recovering' = recovering + 1
  /\ UNCHANGED idle

\* job() for task t, to its end
WorkerRun(t) ==
  /\ running[t] > 0
  /\ running' = [running EXCEPT ![t] = @ - 1]
  /\ executed' = [executed EXCEPT ![t] = @ + 1]
  /\ IF panics[t] THEN JobPanics(t) ELSE JobReturns(t)
  /\ UNCHANGED <<configVars, spawnVars, retiring, queueVars, result, panics,
                 lifeVars, ghostVars, workerCount, spawnWorkerCh>>

ShouldRetireAtStandBy(count, standBy, maximum) == count >= standBy \/ count > maximum

\* job() panics and the panicHandler called by the deferred function panics
\* too: the deferred function is left before its workerCount--, nothing
\* recovers the second panic, and the Go runtime ends the process
WorkerRunHandlerPanics(t) ==
  /\ running[t] > 0
  /\ panics[t]
  /\ running' = [running EXCEPT ![t] = @ - 1]
  /\ executed' = [executed EXCEPT ![t] = @ + 1]
  /\ handled' = [handled EXCEPT ![t] = @ + 1]
  /\ crashed' = TRUE
  /\ UNCHANGED <<configVars, spawnVars, idle, retiring, recovering, queueVars,
                 result, panics, isClosed, closing, closeCalls, closedWrites,
                 queueCloses, ghostVars, workerCount, spawnWorkerCh>>

\* the expiry check under RLock
ShouldRetire(count, standBy, maximum) == count > standBy \/ count > maximum

\* case <-time.After(workerExpiryDuration): break loopLabel, or loop again.
\* On the closed, drained queue the receive case is ready at every pass of the
\* select, before the timer created for that pass can fire.
WorkerExpire ==
  /\ idle > 0
  /\ ~(queueClosed /\ jobQueue = <<>>)
  /\ IF ShouldRetire(workerCount, workerSizeStandBy, workerSizeMaximum)
       THEN /\ idle' = idle - 1
            /\ retiring' = retiring + 1
       ELSE UNCHANGED <<idle, retiring>>
  /\ UNCHANGED <<configVars, spawnVars, running, recovering, queueVars, taskVars,
                 lifeVars, ghostVars, workerCount, spawnWorkerCh>>

\* the deferred workerCount-- of a worker that left the loop on expiry
WorkerRetire ==
  /\ retiring > 0
  /\ LockFree
  /\ retiring' = retiring - 1
  /\ workerCount' = workerCount - 1
  /\ UNCHANGED <<configVars, spawnVars, idle, running, recovering, queueVars,
                 taskVars, lifeVars, ghostVars, spawnWorkerCh>>

\* the deferred workerCount-- of a worker that recovered a panic
WorkerRecycle ==
  /\ recovering > 0
  /\ LockFree
  /\ recovering' = recovering - 1
  /\ workerCount' = workerCount - 1
  /\ UNCHANGED <<configVars, spawnVars, idle, running, retiring, queueVars,
                 taskVars, lifeVars, ghostVars, spawnWorkerCh>>

\* ------------------------------------------------------- specifications
SpawnLoop ==
  \/ SpawnWake
  \/ TrySpawnQuotient
  \/ TrySpawnClamp
  \/ TrySpawnCount
  \/ TrySpawnLaunch
  \/ SpawnSleepDone

\* a worker of a pool whose Task Queue is open
OpenWorker ==
  \/ WorkerReceive
  \/ \E t \in Tasks : WorkerRun(t)
  \/ WorkerExpire
  \/ WorkerRetire
  \/ WorkerRecycle

Worker ==
  \/ OpenWorker
  \/ WorkerReceiveNil

Setters ==
  \/ \E b \in BatchSizes : SetWorkerBatchSize(b)
  \/ \E s \in StandBys : SetWorkerSizeStandBy(s)
  \/ \E m \in Maximums : SetWorkerSizeMaximum(m)
  \/ SetWorkerExpiryDuration
  \/ \E f \in BOOLEAN : SetIsJobQueueClosedWhenClose(f)

Submit ==
  \/ \E t \in 1..MaxTasks, p \in BOOLEAN : Schedule(t, p)
  \/ \E t \in 1..MaxTasks, p \in BOOLEAN, d \in Timeouts : ScheduleWithTimeout(t, p, d)

\* submissions, Close, the spawn loop and the workers of a configured pool
Next ==
  \/ Submit
  \/ CloseBegin
  \/ CloseFinish
  \/ SpawnLoop
  \/ Worker

Spec == Init /\ [][Next]_vars

\* a pool that is never closed, with the sizing setters and PreAllocWorkerSize
\* called at run time
SizingNext ==
  \/ Submit
  \/ Setters
  \/ \E n \in PreAllocSizes : PreAllocWorkerSize(n)
  \/ SpawnLoop
  \/ OpenWorker

SizingSpec == Init /\ [][SizingNext]_vars

\* The Go scheduler runs every runnable goroutine: the spawn loop and the
\* workers take their next step, a job that is ready for a worker in the
\* select is received, and a Close under way completes.  Callers are not
\* obliged to call anything.
Fairness ==
  /\ WF_vars(SpawnLoop)
  /\ SF_vars(WorkerReceive)
  /\ \A t \in Tasks : WF_vars(WorkerRun(t))
  /\ WF_vars(WorkerExpire)
  /\ WF_vars(WorkerRetire)
  /\ WF_vars(WorkerRecycle)
  /\ WF_vars(CloseFinish)

LiveSpec == Init /\ [][Next]_vars /\ Fairness

\* a pool that is never closed
OpenNext ==
  \/ Submit
  \/ SpawnLoop
  \/ OpenWorker

OpenLiveSpec == Init /\ [][OpenNext]_vars /\ Fairness

\* An idle pool: configured, c workers pre-allocated with
\* PreAllocWorkerSize(c) before or after the configuration, nothing submitted
\* and no later call.
InitIdle ==
  /\ InitPool
  /\ \E c \in 0..MaxInitialWorkers :
        /\ workerCount = c
        /\ idle = c
        /\ preAllocSize = c
        /\ \/ InitConfig
           \/ /\ workerBatchSize \in BatchSizes
              /\ workerSizeStandBy \in StandBys
              /\ workerSizeMaximum \in Maximums
              /\ isJobQueueClosedWhenClose \in BOOLEAN
              /\ spawnWorkerCh = notifyWorkers(0, c, workerSizeStandBy, <<>>)

IdleNext ==
  \/ SpawnLoop
  \/ WorkerExpire
  \/ WorkerRetire

IdleSpec ==
  /\ InitIdle
  /\ [][IdleNext]_vars
  /\ WF_vars(SpawnLoop) /\ WF_vars(WorkerExpire) /\ WF_vars(WorkerRetire)

\* A burst: the pool configured with SetWorkerSizeStandBy(BurstWorkers)
\* .SetWorkerSizeMaximum(BurstWorkers), then BurstTasks tasks that return
\* normally are submitted; no Close, no later setter call.
InitBurst ==
  /\ InitPool
  /\ workerCount = 0
  /\ idle = 0
  /\ preAllocSize = 0
  /\ workerBatchSize \in {DefaultBatchSize} \cup (1..MaxBatch)
  /\ workerSizeStandBy = BurstWorkers
  /\ workerSizeMaximum = BurstWorkers
  /\ isJobQueueClosedWhenClose = TRUE
  /\ spawnWorkerCh = notifyWorkers(0, 0, workerSizeStandBy, <<>>)

BurstSubmit ==
  \/ \E t \in 1..BurstTasks : Schedule(t, FALSE)
  \/ \E t \in 1..BurstTasks, d \in Timeouts : ScheduleWithTimeout(t, FALSE, d)

\* no worker gets past its loop here (C12_BurstServedByFixedPool checks it),
\* so the deferred decrements are left out
BurstNext ==
  \/ BurstSubmit
  \/ SpawnLoop
  \/ WorkerReceive
  \/ \E t \in Tasks : WorkerRun(t)
  \/ WorkerExpire

BurstFairness ==
  /\ WF_vars(SpawnLoop)
  /\ SF_vars(WorkerReceive)
  /\ \A t \in Tasks : WF_vars(WorkerRun(t))
  /\ WF_vars(WorkerExpire)

BurstSpec == InitBurst /\ [][BurstNext]_vars /\ BurstFairness

\* The pool configured as for a burst, more submissions than the Task Queue
\* holds, and Close: every outcome of Schedule (ok, QueueFull, PoolClosed)
\* occurs.
FacadeSubmit ==
  \/ \E t \in 1..(QueueCap + 1), p \in BOOLEAN : Schedule(t, p)
  \/ \E t \in 1..(QueueCap + 1), p \in BOOLEAN, d \in Timeouts :
        ScheduleWithTimeout(t, p, d)

\* (the count never exceeds standby = maximum here, so no worker leaves its
\* loop on expiry and WorkerRetire has nothing to do)
FacadeNext ==
  \/ FacadeSubmit
  \/ CloseBegin
  \/ CloseFinish
  \/ SpawnLoop
  \/ WorkerReceive
  \/ \E t \in Tasks : WorkerRun(t)
  \/ WorkerExpire
  \/ WorkerRecycle
  \/ WorkerReceiveNil

\* (the batch size is left at its default: with standby = maximum it does not
\* change any target)
InitFacade ==
  /\ InitBurst
  /\ workerBatchSize = DefaultBatchSize

FacadeSpec == InitFacade /\ [][FacadeNext]_vars

\* a pool that is never closed and whose configured panic handler may panic
\* itself; nothing runs once the process has ended
HandlerNext ==
  \/ ~crashed /\ Submit
  \/ ~crashed /\ SpawnLoop
  \/ ~crashed /\ OpenWorker
  \/ ~crashed /\ \E t \in Tasks : WorkerRunHandlerPanics(t)

HandlerSpec == Init /\ [][HandlerNext]_vars

\* worker goroutines launched and not yet terminated
LiveWorkers ==
  LET sum[k \in 0..Cardinality(Tasks)] ==
        IF k = 0 THEN 0 ELSE running[k] + sum[k - 1]
  IN  idle + sum[Cardinality(Tasks)] + retiring + recovering

\* ------------------------------------------------------------ properties
InQueue(t) == \E i \in 1..Len(jobQueue) : jobQueue[i] = t

\* C1: every task whose offer succeeded is eventually executed by a worker,
\* unless the Task Queue is closed before it drains.
C1_OfferedTaskEventuallyRuns ==
  \A t \in Tasks : (result[t] = "ok") ~> (executed[t] > 0 \/ queueClosed)

\* C2: no offered task is taken by more than one worker or run more than
\* once, and a task still queued has not been taken.
C2_AtMostOnce ==
  \A t \in Tasks :
    /\ running[t] + executed[t] <= 1
    /\ InQueue(t) => running[t] + executed[t] = 0
    /\ Cardinality({i \in 1..Len(jobQueue) : jobQueue[i] = t}) <= 1

C2_TwoWorkersConsumed ==
  \E t, u \in Tasks : t # u /\ executed[t] = 1 /\ running[u] = 1 /\ workerCount >= 2

\* C3: a Schedule or ScheduleWithTimeout call on a closed pool returns
\* PoolClosed and leaves the Task Queue, the signal mailbox and the worker
\* count as they were.
C3_ScheduleAfterClose ==
  [][\A t \in Tasks :
       (isClosed /\ result[t] = "none" /\ result'[t] # "none")
         => /\ result'[t] = "PoolClosed"
            /\ UNCHANGED <<jobQueue, queueClosed, spawnWorkerCh, workerCount,
                           workerVars>>]_vars

C3_RejectedAfterClose ==
  \E t \in Tasks : result[t] = "PoolClosed" /\ ~queueClosed /\ Len(jobQueue) < QueueCap

\* C4: the closed flag never returns to false, and a Close call that finds
\* the pool closed changes nothing of the pool.
C4_CloseIdempotent ==
  [][/\ isClosed => isClosed'
     /\ (isClosed /\ closeCalls' # closeCalls)
          => UNCHANGED <<isClosed, closing, closedWrites, queueCloses, queueVars,
                         workerCount, spawnWorkerCh, workerVars, spawnVars,
                         configVars, taskVars>>]_vars

C4_ClosedTwice ==
  isClosed /\ closeCalls > closing + closedWrites

\* C5: when a task has failed while another task is still queued, that task
\* is eventually executed (unless the Task Queue is closed).
C5_QueuedTaskRunsAfterFailure ==
  \A t, f \in Tasks :
    (handled[f] > 0 /\ InQueue(t)) ~> (executed[t] > 0 \/ queueClosed)

\* C6: a worker whose task fails goes back to its loop: it does not leave
\* the loop to decrement the worker count.
C6_WorkerSurvivesFailure ==
  [][\A t \in Tasks :
       (running[t] > 0 /\ panics[t] /\ executed'[t] = executed[t] + 1)
         => (idle' = idle + 1 /\ recovering' = recovering)]_vars

\* C7: the panic handler has been called once for every task that was run
\* and failed and never for a task that returned, and the result Schedule
\* gave for a task that later failed is still ok.
C7_HandlerOncePerFailure ==
  \A t \in Tasks :
    /\ handled[t] = IF panics[t] THEN executed[t] ELSE 0
    /\ handled[t] <= 1
    /\ handled[t] > 0 => result[t] = "ok"

C7_OneFailedOneReturned ==
  \E t, u \in Tasks :
    /\ panics[t] /\ executed[t] = 1 /\ handled[t] = 1
    /\ ~panics[u] /\ executed[u] = 1 /\ handled[u] = 0

\* C8 as claimed: the worker count is never negative and, once an
\* evaluation cycle has run after the last sizing change, not above a
\* positive workerSizeMaximum.
C8_BoundAfterEvaluation ==
  /\ workerCount >= 0
  /\ (workerSizeMaximum > 0 /\ settled) => workerCount <= workerSizeMaximum

\* C8 as amended: the worker count is never negative and not above a
\* positive workerSizeMaximum as long as PreAllocWorkerSize has launched no
\* worker and the ceiling has not been lowered at run time.
C8_BoundWithoutPreAllocOrShrink ==
  /\ workerCount >= 0
  /\ (workerSizeMaximum > 0 /\ ~maxLowered /\ preAllocSize = 0)
       => workerCount <= workerSizeMaximum

C8_AtCeilingAfterChange ==
  /\ setterCalls > 0 /\ settled /\ ~maxLowered /\ preAllocSize = 0
  /\ workerSizeMaximum > 0 /\ workerCount = workerSizeMaximum
  /\ Count(jobQueue) > workerSizeMaximum * FloorBatch(workerBatchSize)

\* C9: an idle pool eventually has exactly workerSizeStandBy workers and
\* keeps that number.
C9_ConvergesToStandBy ==
  <>[](workerCount = workerSizeStandBy)

\* C10: an expiry retirement never takes the worker count below
\* workerSizeStandBy (stated for counts within workerSizeMaximum, where only
\* the standby comparison decides).
C10_ExpiryKeepsStandBy ==
  [][(retiring' < retiring /\ workerCount <= workerSizeMaximum)
       => workerCount' >= workerSizeStandBy]_vars

\* C11: the target an evaluation computes is the policy value for a depth of
\* the Task Queue, also when the depth changes during the evaluation (every
\* depth the queue had during the evaluation is one of 0..QueueCap).  The
\* policy at depth d: ceil(d / max(b, 1)), raised to s, lowered to m if m > 0.
C11_TargetIsPolicyValue ==
  [][LET Policy(d, b, s, m) ==
           LET bb == IF b < 1 THEN 1 ELSE b
               c == (d + bb - 1) \div bb
               f == IF c < s THEN s ELSE c
           IN  IF m > 0 /\ f > m THEN m ELSE f
     IN  (spawnPc = "eval2" /\ spawnPc' = "count")
           => \E d \in 0..QueueCap :
                expectedWorkerCount' = Policy(d, workerBatchSize, workerSizeStandBy,
                                              workerSizeMaximum)]_vars

C13_WorkersRetireAfterClose ==
  (queueClosed /\ jobQueue = <<>>) ~> (workerCount <= workerSizeStandBy)

\* C14 as claimed: after every call of a sizing setter (batch size, standby,
\* maximum, expiry duration) a signal is pending in the mailbox or an
\* evaluation is under way.
C14_SetterAlwaysSignals ==
  [][(setterCalls' = setterCalls + 1 /\ UNCHANGED isJobQueueClosedWhenClose)
       => (spawnWorkerCh' > 0 \/ spawnPc \in {"eval1", "eval2", "count", "launch"})]_vars

\* C14 as amended: a sizing setter sends a signal exactly when the worker
\* count is below the standby size now set or the Task Queue is not empty;
\* then a signal is pending after the call, otherwise the mailbox is as it was.
C14_SetterSignalsWhenNeeded ==
  [][(setterCalls' = setterCalls + 1 /\ UNCHANGED isJobQueueClosedWhenClose)
       => IF workerCount < workerSizeStandBy' \/ Count(jobQueue) > 0
            THEN spawnWorkerCh' = SpawnChCap
            ELSE spawnWorkerCh' = spawnWorkerCh]_vars

C14_SignalFromSetter ==
  /\ setterCalls > 0
  /\ \A t \in Tasks : result[t] = "none"
  /\ spawnPc = "sleep"
  /\ spawnWorkerCh > 0

\* C15: a PreAllocWorkerSize(n) call made with fewer than n workers leaves
\* the worker count at exactly n, whatever the queue depth, the standby and
\* the maximum; a call made with n workers or more launches none (the count
\* only rises by a launching call or by the spawn loop's launch).
C15_PreAllocReachesN ==
  [][/\ preAllocSize' # preAllocSize
          => /\ workerCount < preAllocSize'
             /\ workerCount' = preAllocSize'
             /\ idle' = idle + (preAllocSize' - workerCount)
     /\ (workerCount' > workerCount /\ preAllocSize' = preAllocSize)
          => spawnPc = "launch"]_vars

C15_PreAllocAboveMaximum ==
  /\ preAllocSize > workerSizeMaximum
  /\ workerSizeMaximum > 0
  /\ workerCount = preAllocSize
  /\ jobQueue # <<>>
  /\ spawnPc = "wait"

C17_CountIsLiveWorkers ==
  workerCount = LiveWorkers

\* C18: the mailbox never holds more than one signal; a Schedule call made
\* while a signal is pending leaves that one signal pending (its own is
\* dropped, the call is not held up); and the wake that takes the pending
\* signal leaves the mailbox empty, so the calls made before it get one
\* evaluation.
C18_MailboxCoalesces ==
  /\ [](spawnWorkerCh \in {0, 1})
  /\ [][/\ (spawnWorkerCh = 1 /\ ~isClosed /\ result' # result)
            => spawnWorkerCh' = 1
       /\ (spawnPc = "wait" /\ spawnPc' # "wait")
            => (spawnWorkerCh = 1 /\ spawnWorkerCh' = 0)]_vars

C18_TwoCallsOneSignal ==
  /\ spawnPc = "wait"
  /\ spawnWorkerCh = 1
  /\ Len(jobQueue) = 2
  /\ \A t \in 1..2 : result[t] = "ok"
  /\ workerCount = 0

\* C19: a wake on a closed pool ends the spawn loop for good and no worker
\* is launched at that wake or later; a wake on an open pool launches
\* workers one by one from the count it read up to the target, none when
\* the count is not below the target; and the next signal is taken only
\* from the wait that follows the sleep.
C19_WakeLaunchesDifference ==
  [][/\ (spawnPc = "wait" /\ spawnPc' # "wait")
          => spawnPc' = IF isClosed THEN "done" ELSE "eval1"
     /\ spawnPc = "done" => (spawnPc' = "done" /\ workerCount' <= workerCount)
     /\ (spawnPc = "count" /\ spawnPc' # "count")
          => IF workerCount < expectedWorkerCount
               THEN spawnPc' = "launch" /\ spawnI' = workerCount
               ELSE spawnPc' = "sleep"
     /\ (spawnPc = "launch" /\ (spawnPc' # "launch" \/ spawnI' # spawnI))
          => /\ workerCount' = workerCount + 1
             /\ IF spawnI + 1 < expectedWorkerCount
                  THEN spawnPc' = "launch" /\ spawnI' = spawnI + 1
                  ELSE spawnPc' = "sleep"
     /\ workerCount' > workerCount
          => (spawnPc = "launch" /\ (spawnPc' # "launch" \/ spawnI' # spawnI))
     /\ spawnWorkerCh' < spawnWorkerCh => spawnPc = "wait"
     /\ (spawnPc' = "wait" /\ spawnPc # "wait") => spawnPc = "sleep"]_vars

C19_LaunchedThenEnded ==
  /\ spawnPc = "done"
  /\ workerCount = 2
  /\ jobQueue # <<>>

\* C20: however Close calls interleave, the closed flag is written at most
\* once and the Task Queue's close is performed at most once.
C20_CloseActsOnce ==
  closedWrites <= 1 /\ queueCloses <= 1

====
